---------------------------- MODULE Spec2Model ----------------------------
(***************************************************************************)
(* micro-lisp: Lexer -> parse -> evaluate, as run() drives them.           *)
(*                                                                         *)
(* The source text is a sequence of one-character strings.  A Token is a   *)
(* record [tag, n, s, items]; n is the i32 of an Int, s the character      *)
(* sequence of a Symbol, items the elements of a List.  Token::Int is       *)
(* IntT here: Int is the set of integers.                                  *)
(* The recursion of evaluate() is an explicit stack of frames, one frame   *)
(* per List node under evaluation, so that every call of evaluate() and    *)
(* every return is one step.                                               *)
(***************************************************************************)
EXTENDS Integers, Sequences, FiniteSets, TLC

VARIABLES
    text,          \* Lexer.text
    current_pos,   \* Lexer.current_pos
    line,          \* Lexer.line
    toks,          \* history: the Tokens next() has returned, in order
    cur,           \* the Token the for loop of parse() holds, <<>> if none
    list_stack,    \* parse: list_stack
    curr_list,     \* parse: curr_list
    ast,           \* run: the Vec<Token> parse() returned
    idx,           \* run: position of the fold over ast (1-based), 0 before
    acc,           \* run: the fold's accumulator
    vars,          \* the HashMap<Token, Token> handed to evaluate()
    ctl,           \* evaluate: the call or the return in progress
    stack,         \* evaluate: the frames of the List nodes under evaluation
    out,           \* the values println! has written, in order
    sets,          \* history: every "set" that returned: its form, list[1], its value
    pc,            \* "lex" | "parse" | "eval" | "done" | "panic"
    err,           \* the panic message, "" if none
    checked        \* the build's overflow-checks (debug: TRUE, release: FALSE)

vars_all == <<text, current_pos, line, toks, cur, list_stack, curr_list, ast, idx, acc,
              vars, ctl, stack, out, sets, pc, err, checked>>

-----------------------------------------------------------------------------
(* Token *)

Open == [tag |-> "Open", n |-> 0, s |-> <<>>, items |-> <<>>]
Close == [tag |-> "Close", n |-> 0, s |-> <<>>, items |-> <<>>]
True == [tag |-> "True", n |-> 0, s |-> <<>>, items |-> <<>>]
False == [tag |-> "False", n |-> 0, s |-> <<>>, items |-> <<>>]
IntT(i) == [tag |-> "Int", n |-> i, s |-> <<>>, items |-> <<>>]
Symbol(str) == [tag |-> "Symbol", n |-> 0, s |-> str, items |-> <<>>]
List(v) == [tag |-> "List", n |-> 0, s |-> <<>>, items |-> v]

I32Max == 2147483647
I32Min == -I32Max - 1

-----------------------------------------------------------------------------
(* TokenMatcher: the six anchored regular expressions *)

Digits == {"0", "1", "2", "3", "4", "5", "6", "7", "8", "9"}
Lower == {"a", "b", "c", "d", "e", "f", "g", "h", "i", "j", "k", "l", "m",
          "n", "o", "p", "q", "r", "s", "t", "u", "v", "w", "x", "y", "z"}
Upper == {"A", "B", "C", "D", "E", "F", "G", "H", "I", "J", "K", "L", "M",
          "N", "O", "P", "Q", "R", "S", "T", "U", "V", "W", "X", "Y", "Z"}
\* [+\-\*><=a-zA-Z]
SymbolStart == {"+", "-", "*", ">", "<", "="} \cup Lower \cup Upper
\* [a-zA-Z0-9]
SymbolRest == Lower \cup Upper \cup Digits
\* \s (the ASCII part)
Whitespace == {" ", "\t", "\n", "\r", "\f"}

\* The length of the longest prefix of slice whose characters are all in class.
RECURSIVE Run(_, _)
Run(slice, class) ==
    IF slice # <<>> /\ Head(slice) \in class
    THEN 1 + Run(Tail(slice), class)
    ELSE 0

\* ^\(  and  ^\)
MatchOpen(slice) == slice # <<>> /\ Head(slice) = "("
MatchClose(slice) == slice # <<>> /\ Head(slice) = ")"

\* ^[\+\-]?[0-9]+ : m.end(), 0 if no match
MatchInt(slice) ==
    IF slice # <<>> /\ Head(slice) \in {"+", "-"}
    THEN (IF Run(Tail(slice), Digits) > 0 THEN 1 + Run(Tail(slice), Digits) ELSE 0)
    ELSE Run(slice, Digits)

\* ^[+\-\*><=a-zA-Z][a-zA-Z0-9]* : m.end(), 0 if no match
MatchSymbol(slice) ==
    IF slice # <<>> /\ Head(slice) \in SymbolStart
    THEN 1 + Run(Tail(slice), SymbolRest)
    ELSE 0

\* ^\n : m.end(), 0 if no match
MatchNewline(slice) == IF slice # <<>> /\ Head(slice) = "\n" THEN 1 ELSE 0

\* ^\s+ : m.end(), 0 if no match
MatchWhitespace(slice) == Run(slice, Whitespace)

DigitVal(c) ==
    CASE c = "0" -> 0 [] c = "1" -> 1 [] c = "2" -> 2 [] c = "3" -> 3
      [] c = "4" -> 4 [] c = "5" -> 5 [] c = "6" -> 6 [] c = "7" -> 7
      [] c = "8" -> 8 [] c = "9" -> 9

\* str::parse::<i32>: [ok, n].  The digits are accumulated on the side of the
\* sign, as core::num does, so that -2147483648 parses; a value outside i32 is Err.
RECURSIVE ParseDigits(_, _, _)
ParseDigits(ds, neg, a) ==
    IF ds = <<>> THEN [ok |-> TRUE, n |-> a]
    ELSE LET d == DigitVal(Head(ds)) IN
         IF neg
         THEN (IF a < (I32Min + d) \div 10 + (IF (I32Min + d) % 10 = 0 THEN 0 ELSE 1)
               THEN [ok |-> FALSE, n |-> 0]
               ELSE ParseDigits(Tail(ds), neg, a * 10 - d))
         ELSE (IF a > (I32Max - d) \div 10
               THEN [ok |-> FALSE, n |-> 0]
               ELSE ParseDigits(Tail(ds), neg, a * 10 + d))

ParseI32(number_str) ==
    IF Head(number_str) = "-" THEN ParseDigits(Tail(number_str), TRUE, 0)
    ELSE IF Head(number_str) = "+" THEN ParseDigits(Tail(number_str), FALSE, 0)
    ELSE ParseDigits(number_str, FALSE, 0)

-----------------------------------------------------------------------------
(* arithmetic.rs: i32 arithmetic.  An i32 operation whose result leaves the  *)
(* range panics in a build with overflow checks and wraps modulo 2^32 in a   *)
(* build without them.  The wrapped results are computed without leaving     *)
(* the 32-bit range.                                                         *)

Half == 65536

AddOverflows(a, b) == (b > 0 /\ a > I32Max - b) \/ (b < 0 /\ a < I32Min - b)
SubOverflows(a, b) == (b < 0 /\ a > I32Max + b) \/ (b > 0 /\ a < I32Min + b)
MulOverflows(a, b) ==
    CASE a = 0 \/ b = 0 -> FALSE
      [] a > 0 /\ b > 0 -> a > I32Max \div b
      [] a > 0 /\ b < 0 -> b < (I32Min \div a) + (IF I32Min % a = 0 THEN 0 ELSE 1)
      [] a < 0 /\ b > 0 -> a < (I32Min \div b) + (IF I32Min % b = 0 THEN 0 ELSE 1)
      [] OTHER -> a = I32Min \/ b = I32Min \/ (-a) > I32Max \div (-b)

WrappingAdd(a, b) ==
    CASE b > 0 /\ a > I32Max - b -> (a - I32Max - 1) + (b - I32Max - 1)
      [] b < 0 /\ a < I32Min - b -> (a + I32Max + 1) + (b + I32Max + 1)
      [] OTHER -> a + b

WrappingSub(a, b) ==
    CASE b < 0 /\ a > I32Max + b -> (a - I32Max - 1) - (b + I32Max + 1)
      [] b > 0 /\ a < I32Min + b -> (a + I32Max + 1) - (b - I32Max - 1)
      [] OTHER -> a - b

\* The 32 bits of an i32 as two 16-bit halves, and back.
ToU32(a) == [hi |-> (a \div Half) % Half, lo |-> a % Half]
FromU32(u) == IF u.hi >= Half \div 2 THEN (u.hi - Half) * Half + u.lo
              ELSE u.hi * Half + u.lo
AddU32(u, v) ==
    LET lo == u.lo + v.lo
    IN  [hi |-> (u.hi + v.hi + lo \div Half) % Half, lo |-> lo % Half]

\* u * m modulo 2^32, m >= 0, by doubling.
RECURSIVE MulU32(_, _)
MulU32(u, m) ==
    IF m = 0 THEN [hi |-> 0, lo |-> 0]
    ELSE LET h == MulU32(AddU32(u, u), m \div 2)
         IN  IF m % 2 = 1 THEN AddU32(h, u) ELSE h

WrappingMul(a, b) ==
    IF ~MulOverflows(a, b) THEN a * b
    ELSE LET u == ToU32(a)
             v == ToU32(b)
         IN  FromU32(AddU32(MulU32(u, v.lo),
                            [hi |-> MulU32(u, v.hi).lo, lo |-> 0]))

\* The outcome of an operation: a value, or a panic with its message.
Ok(v) == [ok |-> TRUE, val |-> v, msg |-> ""]
Panic(m) == [ok |-> FALSE, val |-> False, msg |-> m]

\* impl Add for Token: int_rhs + i
add(self, rhs) ==
    IF self.tag = "Int" /\ rhs.tag = "Int"
    THEN (IF checked /\ AddOverflows(rhs.n, self.n)
          THEN Panic("attempt to add with overflow")
          ELSE Ok(IntT(WrappingAdd(rhs.n, self.n))))
    ELSE Panic("you can add only integers")

\* Mutant: the operands in the order add and mul take them, int_rhs - i
sub_Swapped(self, rhs) ==
    IF self.tag = "Int" /\ rhs.tag = "Int"
    THEN (IF checked /\ SubOverflows(rhs.n, self.n)
          THEN Panic("attempt to subtract with overflow")
          ELSE Ok(IntT(WrappingSub(rhs.n, self.n))))
    ELSE Panic("you can subtract only integers")

\* impl Sub for Token: i - int_rhs
sub(self, rhs) ==
    IF self.tag = "Int" /\ rhs.tag = "Int"
    THEN (IF checked /\ SubOverflows(self.n, rhs.n)
          THEN Panic("attempt to subtract with overflow")
          ELSE Ok(IntT(WrappingSub(self.n, rhs.n))))
    ELSE Panic("you can subtract only integers")

\* Mutant: the product wraps in every build
mul_Wrapping(self, rhs) ==
    IF self.tag = "Int" /\ rhs.tag = "Int"
    THEN Ok(IntT(WrappingMul(rhs.n, self.n)))
    ELSE Panic("you can multiply only integers")

\* impl Mul for Token: int_rhs * i
mul(self, rhs) ==
    IF self.tag = "Int" /\ rhs.tag = "Int"
    THEN (IF checked /\ MulOverflows(rhs.n, self.n)
          THEN Panic("attempt to multiply with overflow")
          ELSE Ok(IntT(WrappingMul(rhs.n, self.n))))
    ELSE Panic("you can multiply only integers")

\* impl PartialEq for Token; Vec<Token> == Vec<Token> compares the lengths and
\* then the elements with this eq.
RECURSIVE eq(_, _)
eq(self, other) ==
    CASE self.tag = "Open" -> other.tag = "Open"
      [] self.tag = "Close" -> other.tag = "Open"
      [] self.tag = "Int" -> other.tag = "Int" /\ self.n = other.n
      [] self.tag = "Symbol" -> other.tag = "Symbol" /\ self.s = other.s
      [] self.tag = "List" ->
            /\ other.tag = "List"
            /\ Len(self.items) = Len(other.items)
            /\ \A i \in 1..Len(self.items) : eq(self.items[i], other.items[i])
      [] self.tag = "True" -> other.tag = "True"
      [] self.tag = "False" -> other.tag = "False"

\* The byte of a character: its place in ASCII order among the characters a
\* Symbol is made of.
Ascii == <<"*", "+", "-", "0", "1", "2", "3", "4", "5", "6", "7", "8", "9",
           "<", "=", ">",
           "A", "B", "C", "D", "E", "F", "G", "H", "I", "J", "K", "L", "M",
           "N", "O", "P", "Q", "R", "S", "T", "U", "V", "W", "X", "Y", "Z",
           "a", "b", "c", "d", "e", "f", "g", "h", "i", "j", "k", "l", "m",
           "n", "o", "p", "q", "r", "s", "t", "u", "v", "w", "x", "y", "z">>
Byte(c) == CHOOSE i \in 1..Len(Ascii) : Ascii[i] = c

\* i32::cmp
CmpI32(i1, i2) == IF i1 < i2 THEN "Less" ELSE IF i1 > i2 THEN "Greater" ELSE "Equal"

\* String::cmp: lexicographic on the bytes, a proper prefix is Less.
RECURSIVE CmpStr(_, _)
CmpStr(s1, s2) ==
    CASE s1 = <<>> /\ s2 = <<>> -> "Equal"
      [] s1 = <<>> /\ s2 # <<>> -> "Less"
      [] s1 # <<>> /\ s2 = <<>> -> "Greater"
      [] OTHER ->
           IF Byte(Head(s1)) < Byte(Head(s2)) THEN "Less"
           ELSE IF Byte(Head(s1)) > Byte(Head(s2)) THEN "Greater"
           ELSE CmpStr(Tail(s1), Tail(s2))

\* Mutant: values of different variants are ordered, not refused
cmp_ByVariant(self, other) ==
    CASE self.tag = "Int" /\ other.tag = "Int" ->
           [ok |-> TRUE, ord |-> CmpI32(self.n, other.n)]
      [] self.tag = "Symbol" /\ other.tag = "Symbol" ->
           [ok |-> TRUE, ord |-> CmpStr(self.s, other.s)]
      [] OTHER -> [ok |-> TRUE, ord |-> IF self.tag = other.tag THEN "Equal" ELSE "Less"]

\* impl Ord for Token: the Ordering, or the panic.
cmp(self, other) ==
    CASE self.tag = "Int" /\ other.tag = "Int" ->
           [ok |-> TRUE, ord |-> CmpI32(self.n, other.n)]
      [] self.tag = "Symbol" /\ other.tag = "Symbol" ->
           [ok |-> TRUE, ord |-> CmpStr(self.s, other.s)]
      [] OTHER -> [ok |-> FALSE, ord |-> "Equal"]

\* fn remap_bool
remap_bool(value) == IF value THEN True ELSE False

\* Mutant: < answers as <= does
lt_OrEqual(self, other) ==
    IF cmp(self, other).ok THEN Ok(remap_bool(cmp(self, other).ord # "Greater"))
    ELSE Panic("comparison works only for numbers and symbols")

\* Mutant: > answers as >= does
gt_OrEqual(self, other) ==
    IF cmp(self, other).ok THEN Ok(remap_bool(cmp(self, other).ord # "Less"))
    ELSE Panic("comparison works only for numbers and symbols")

\* PartialOrd::gt and ::lt through partial_cmp = Some(cmp), and the == of "=".
gt(self, other) ==
    IF cmp(self, other).ok THEN Ok(remap_bool(cmp(self, other).ord = "Greater"))
    ELSE Panic("comparison works only for numbers and symbols")
lt(self, other) ==
    IF cmp(self, other).ok THEN Ok(remap_bool(cmp(self, other).ord = "Less"))
    ELSE Panic("comparison works only for numbers and symbols")
equals(self, other) == Ok(remap_bool(eq(self, other)))

-----------------------------------------------------------------------------
(* Lexer: impl Iterator for Lexer.  parse() calls next() at the top of each  *)
(* iteration of its for loop (pc = "lex").                                   *)

lexVars == <<text, current_pos, line, toks>>
parseVars == <<cur, list_stack, curr_list>>
runVars == <<ast, idx, acc>>
evalVars == <<vars, ctl, stack, out, sets>>

\* &self.text[self.current_pos..]
Slice == SubSeq(text, current_pos + 1, Len(text))

NoCtl == [op |-> "none", tok |-> False, path |-> <<>>, hist |-> <<>>]

\* Mutant: next() returns None as soon as only whitespace is left
LexEnd_AtWhitespace ==
    /\ pc = "lex"
    /\ Run(Slice, Whitespace) = Len(Slice)
    /\ pc' = "end"
    /\ UNCHANGED <<lexVars, parseVars, runVars, evalVars, err, checked>>

\* slice.is_empty(): next() returns None and the for loop of parse() ends.
LexEnd ==
    /\ pc = "lex"
    /\ Slice = <<>>
    /\ pc' = "end"
    /\ UNCHANGED <<lexVars, parseVars, runVars, evalVars, err, checked>>

\* Mutant: the symbol rule is tried before the int rule
LexToken_SymbolFirst(slice) ==
    CASE MatchOpen(slice) -> [ok |-> TRUE, tok |-> Open, end |-> 1]
      [] MatchClose(slice) -> [ok |-> TRUE, tok |-> Close, end |-> 1]
      [] MatchSymbol(slice) > 0 ->
           LET m == MatchSymbol(slice)
           IN  [ok |-> TRUE, tok |-> Symbol(SubSeq(slice, 1, m)), end |-> m]
      [] MatchInt(slice) > 0 ->
           LET m == MatchInt(slice)
               number == ParseI32(SubSeq(slice, 1, m))
           IN  [ok |-> number.ok, tok |-> IntT(number.n), end |-> m]
      [] OTHER -> [ok |-> FALSE, tok |-> False, end |-> 0]

\* The first four rules, in the order of the if chain: Some(token).
LexToken(slice) ==
    CASE MatchOpen(slice) -> [ok |-> TRUE, tok |-> Open, end |-> 1]
      [] MatchClose(slice) -> [ok |-> TRUE, tok |-> Close, end |-> 1]
      [] MatchInt(slice) > 0 ->
           LET m == MatchInt(slice)
               number == ParseI32(SubSeq(slice, 1, m))
           IN  [ok |-> number.ok, tok |-> IntT(number.n), end |-> m]
      [] MatchSymbol(slice) > 0 ->
           LET m == MatchSymbol(slice)
           IN  [ok |-> TRUE, tok |-> Symbol(SubSeq(slice, 1, m)), end |-> m]
      [] OTHER -> [ok |-> FALSE, tok |-> False, end |-> 0]

EmitsToken(slice) ==
    MatchOpen(slice) \/ MatchClose(slice) \/ MatchInt(slice) > 0 \/ MatchSymbol(slice) > 0

LexEmit ==
    /\ pc = "lex"
    /\ Slice # <<>>
    /\ EmitsToken(Slice)
    /\ LET t == LexToken(Slice) IN
       /\ current_pos' = current_pos + t.end
       /\ IF t.ok
          THEN cur' = <<t.tok>> /\ toks' = Append(toks, t.tok)
               /\ pc' = "parse" /\ err' = err
          ELSE cur' = cur /\ toks' = toks /\ pc' = "panic"
               /\ err' = "called Result::unwrap() on an Err value"
    /\ UNCHANGED <<text, line, list_stack, curr_list, runVars, evalVars, checked>>

\* The newline rule, then the whitespace rule; both call self.next() again.
LexSkip ==
    /\ pc = "lex"
    /\ Slice # <<>>
    /\ ~EmitsToken(Slice)
    /\ \/ /\ MatchNewline(Slice) > 0
          /\ current_pos' = current_pos + MatchNewline(Slice)
          /\ line' = line + 1
       \/ /\ MatchNewline(Slice) = 0
          /\ MatchWhitespace(Slice) > 0
          /\ current_pos' = current_pos + MatchWhitespace(Slice)
          /\ line' = line
    /\ UNCHANGED <<text, toks, parseVars, runVars, evalVars, pc, err, checked>>

\* Mutant: a character no rule matches is skipped
LexPanic_Skip ==
    /\ pc = "lex"
    /\ Slice # <<>>
    /\ ~EmitsToken(Slice)
    /\ MatchNewline(Slice) = 0
    /\ MatchWhitespace(Slice) = 0
    /\ current_pos' = current_pos + 1
    /\ UNCHANGED <<text, line, toks, parseVars, runVars, evalVars, pc, err, checked>>

\* No rule matches: panic!("unrecognized symbol at line {} position {}").
LexPanic ==
    /\ pc = "lex"
    /\ Slice # <<>>
    /\ ~EmitsToken(Slice)
    /\ MatchNewline(Slice) = 0
    /\ MatchWhitespace(Slice) = 0
    /\ pc' = "panic"
    /\ err' = "unrecognized symbol"
    /\ UNCHANGED <<lexVars, parseVars, runVars, evalVars, checked>>

-----------------------------------------------------------------------------
(* fn parse *)

\* Mutant: the element goes to the front
Push_Front(v, e) == <<e>> \o v

Push(v, e) == Append(v, e)
Last(v) == v[Len(v)]
Front(v) == SubSeq(v, 1, Len(v) - 1)

\* Mutant: a Close at depth 0 closes the top-level list in place
ParseStep_Saturating(ls, cl, token) ==
    CASE token.tag = "Open" ->
           [ok |-> TRUE, ls |-> Push(ls, <<>>), cl |-> cl + 1, msg |-> ""]
      [] token.tag = "Close" ->
           IF cl = 0
           THEN [ok |-> TRUE, ls |-> <<<<List(Last(ls))>>>>, cl |-> 0, msg |-> ""]
           ELSE [ok |-> TRUE,
                 ls |-> [Front(ls) EXCEPT ![cl] = Push(@, List(Last(ls)))],
                 cl |-> cl - 1, msg |-> ""]
      [] OTHER ->
           [ok |-> TRUE, ls |-> [ls EXCEPT ![cl + 1] = Push(@, token)],
            cl |-> cl, msg |-> ""]

\* The body of the for loop of parse() on one token: the new list_stack and
\* curr_list, or the panic.  curr_list is a usize: curr_list - 1 at 0 panics
\* with overflow checks and wraps without them, and then list_stack[curr_list]
\* is out of bounds; list_stack has lost its last list by then.
ParseStep(ls, cl, token) ==
    CASE token.tag = "Open" ->
           [ok |-> TRUE, ls |-> Push(ls, <<>>), cl |-> cl + 1, msg |-> ""]
      [] token.tag = "Close" ->
           IF cl = 0
           THEN [ok |-> FALSE, ls |-> Front(ls), cl |-> cl,
                 msg |-> IF checked THEN "attempt to subtract with overflow"
                         ELSE "index out of bounds"]
           ELSE [ok |-> TRUE,
                 ls |-> [Front(ls) EXCEPT ![cl] = Push(@, List(Last(ls)))],
                 cl |-> cl - 1, msg |-> ""]
      [] token.tag \in {"Int", "Symbol", "List"} ->
           [ok |-> TRUE, ls |-> [ls EXCEPT ![cl + 1] = Push(@, token)],
            cl |-> cl, msg |-> ""]
      [] OTHER ->
           [ok |-> FALSE, ls |-> ls, cl |-> cl, msg |-> "unrecognized token in parsing"]

ParseToken ==
    /\ pc = "parse"
    /\ LET r == ParseStep(list_stack, curr_list, cur[1]) IN
       /\ list_stack' = r.ls
       /\ curr_list' = r.cl
       /\ pc' = IF r.ok THEN "lex" ELSE "panic"
       /\ err' = r.msg
    /\ cur' = <<>>
    /\ UNCHANGED <<lexVars, runVars, evalVars, checked>>

\* list_stack.into_iter().flatten().collect()
RECURSIVE Flatten(_)
Flatten(ls) == IF ls = <<>> THEN <<>> ELSE Head(ls) \o Flatten(Tail(ls))

\* Mutant: only an empty stack is refused
ParseOk_NotEmpty(ls) == Len(ls) >= 1

\* After the loop: the len() != 1 check, and the return.
ParseOk(ls) == Len(ls) = 1

ParseEnd ==
    /\ pc = "end"
    /\ IF ParseOk(list_stack)
       THEN ast' = Flatten(list_stack) /\ pc' = "fold" /\ err' = err
       ELSE ast' = ast /\ pc' = "panic" /\ err' = "unmatched parenthesis"
    /\ UNCHANGED <<lexVars, parseVars, idx, acc, evalVars, checked>>

-----------------------------------------------------------------------------
(* fn evaluate.  ctl is the call in progress, [op |-> "eval", tok |-> node], *)
(* or the return in progress, [op |-> "ret", tok |-> value]; path is the     *)
(* place of the node in ast (the top-level form, then the list indices) and  *)
(* hist, on a return, what the returning List node evaluated: the index and  *)
(* the value of each operand evaluation, in order.  A frame is a List node   *)
(* whose operand list[k] is under evaluation; vals are the values it keeps.  *)

SymPlus == <<"+">>
SymMinus == <<"-">>
SymTimes == <<"*">>
SymGreater == <<">">>
SymLess == <<"<">>
SymEquals == <<"=">>
SymIf == <<"i", "f">>
SymWhile == <<"w", "h", "i", "l", "e">>
SymDo == <<"d", "o">>
SymSet == <<"s", "e", "t">>
SymPrint == <<"p", "r", "i", "n", "t">>

\* list[k]
At(list, k) == list.items[k + 1]
\* k < list.len(): list[k] does not panic
Has(list, k) == k < Len(list.items)

\* vars.get(&Symbol(symbol.to_string()))
Get(m, symbol) ==
    IF Symbol(symbol) \in DOMAIN m
    THEN [some |-> TRUE, value |-> m[Symbol(symbol)]]
    ELSE [some |-> FALSE, value |-> False]

\* Mutant: the map holds the new binding only
Insert_Clearing(m, key, value) == [k \in {key} |-> value]

\* vars.insert(key, value)
Insert(m, key, value) ==
    [k \in DOMAIN m \cup {key} |-> IF k = key THEN value ELSE m[k]]

\* HashMap::new()
NewMap == <<>>

\* Mutant: the key is what list[1] is bound to, when that is a Symbol
SetKey_Indirect(list) ==
    IF At(list, 1) \in DOMAIN vars /\ vars[At(list, 1)].tag = "Symbol"
    THEN vars[At(list, 1)]
    ELSE At(list, 1)

\* The key "set" binds: list[1].clone()
SetKey(list) == At(list, 1)

\* if let True = ...  and  while let True = ...
IsTrue(value) == value.tag = "True"

RPanic(m) == [ok |-> FALSE, msg |-> m, ctl |-> ctl, stack |-> stack]
RRet(v, p, h, stk) ==
    [ok |-> TRUE, msg |-> "",
     ctl |-> [op |-> "ret", tok |-> v, path |-> p, hist |-> h], stack |-> stk]
RCall(node, p, stk) ==
    [ok |-> TRUE, msg |-> "",
     ctl |-> [op |-> "eval", tok |-> node, path |-> p, hist |-> <<>>], stack |-> stk]

\* Calls evaluate(&list[k], vars) from the frame f, which replaces the top of
\* the stack (or is pushed on stk); list[k] out of bounds panics.
CallOperand(f, k, stk) ==
    IF Has(f.node, k)
    THEN RCall(At(f.node, k), f.path \o <<k>>, Push(stk, [f EXCEPT !.k = k]))
    ELSE RPanic("index out of bounds")

Go(r) ==
    /\ pc' = IF r.ok THEN "eval" ELSE "panic"
    /\ err' = IF r.ok THEN err ELSE r.msg
    /\ ctl' = r.ctl
    /\ stack' = r.stack

TopFrame == Last(stack)
Returning(syms) ==
    /\ pc = "eval"
    /\ ctl.op = "ret"
    /\ stack # <<>>
    /\ At(TopFrame.node, 0).s \in syms

\* The frame with the returned operand noted in its history.
Noted(f, v) == [f EXCEPT !.hist = Append(@, [k |-> f.k, val |-> v])]

\* Open, Close, Int, True, False
EvalAtom ==
    /\ pc = "eval"
    /\ ctl.op = "eval"
    /\ ctl.tok.tag \notin {"Symbol", "List"}
    /\ Go(IF ctl.tok.tag \in {"Open", "Close"}
          THEN RPanic("open symbol in AST makes no sense")
          ELSE RRet(ctl.tok, ctl.path, <<>>, stack))
    /\ UNCHANGED <<lexVars, parseVars, runVars, vars, out, sets, checked>>

\* Symbol(symbol): the bound value, or the symbol itself
EvalSymbol ==
    /\ pc = "eval"
    /\ ctl.op = "eval"
    /\ ctl.tok.tag = "Symbol"
    /\ Go(RRet(IF Get(vars, ctl.tok.s).some THEN Get(vars, ctl.tok.s).value
               ELSE Symbol(ctl.tok.s),
               ctl.path, <<>>, stack))
    /\ UNCHANGED <<lexVars, parseVars, runVars, vars, out, sets, checked>>

\* Mutant: an unbound symbol in call position evaluates to itself
EvalListStep_Lenient(list, path) ==
    LET f == [node |-> list, path |-> path, k |-> 0, vals |-> <<>>, hist |-> <<>>]
    IN  IF list.items = <<>>
        THEN RPanic("called Option::unwrap() on a None value")
        ELSE IF At(list, 0).tag # "Symbol"
        THEN RPanic("can't evaluate list, first item needs to be a symbol")
        ELSE LET symbol == At(list, 0).s IN
             CASE symbol \in {SymPlus, SymMinus, SymTimes, SymGreater, SymLess,
                              SymEquals, SymIf, SymPrint} ->
                    CallOperand(f, 1, stack)
               [] symbol = SymWhile ->
                    CallOperand([f EXCEPT !.vals = <<False>>], 1, stack)
               [] symbol = SymDo ->
                    IF Has(list, 1) THEN CallOperand(f, 1, stack)
                    ELSE RRet(List(<<>>), path, <<>>, stack)
               [] symbol = SymSet ->
                    CallOperand(f, 2, stack)
               [] OTHER ->
                    IF Get(vars, symbol).some
                    THEN RRet(Get(vars, symbol).value, path, <<>>, stack)
                    ELSE RRet(Symbol(symbol), path, <<>>, stack)

\* List(list): match list.first().unwrap(), up to the first operand's call
EvalListStep(list, path) ==
    LET f == [node |-> list, path |-> path, k |-> 0, vals |-> <<>>, hist |-> <<>>]
    IN  IF list.items = <<>>
        THEN RPanic("called Option::unwrap() on a None value")
        ELSE IF At(list, 0).tag # "Symbol"
        THEN RPanic("can't evaluate list, first item needs to be a symbol")
        ELSE LET symbol == At(list, 0).s IN
             CASE symbol \in {SymPlus, SymMinus, SymTimes, SymGreater, SymLess,
                              SymEquals, SymIf, SymPrint} ->
                    CallOperand(f, 1, stack)
               [] symbol = SymWhile ->
                    CallOperand([f EXCEPT !.vals = <<False>>], 1, stack)
               [] symbol = SymDo ->
                    IF Has(list, 1) THEN CallOperand(f, 1, stack)
                    ELSE RRet(List(<<>>), path, <<>>, stack)
               [] symbol = SymSet ->
                    CallOperand(f, 2, stack)
               [] OTHER ->
                    IF Get(vars, symbol).some
                    THEN RRet(Get(vars, symbol).value, path, <<>>, stack)
                    ELSE RPanic("unknown symbol")

EvalList ==
    /\ pc = "eval"
    /\ ctl.op = "eval"
    /\ ctl.tok.tag = "List"
    /\ Go(EvalListStep(ctl.tok, ctl.path))
    /\ UNCHANGED <<lexVars, parseVars, runVars, vars, out, sets, checked>>

\* "+", "-", "*": the operator applied to the two operand values
Arith(symbol, lhs, rhs) ==
    CASE symbol = SymPlus -> add(lhs, rhs)
      [] symbol = SymMinus -> sub(lhs, rhs)
      [] symbol = SymTimes -> mul(lhs, rhs)

\* ">", "<", "=": the comparison and remap_bool
Compare(symbol, lhs, rhs) ==
    CASE symbol = SymGreater -> gt(lhs, rhs)
      [] symbol = SymLess -> lt(lhs, rhs)
      [] symbol = SymEquals -> equals(lhs, rhs)

\* A binary operator after an operand returned: the second operand's call,
\* or the operator applied.
BinaryStep(f, v, rest, r) ==
    IF f.k = 1
    THEN CallOperand([Noted(f, v) EXCEPT !.vals = <<v>>], 2, rest)
    ELSE IF r.ok THEN RRet(r.val, f.path, Noted(f, v).hist, rest)
         ELSE RPanic(r.msg)

RetArith ==
    /\ Returning({SymPlus, SymMinus, SymTimes})
    /\ LET f == TopFrame
           v == ctl.tok
       IN  Go(BinaryStep(f, v, Front(stack),
                         IF f.k = 1 THEN Ok(v) ELSE Arith(At(f.node, 0).s, f.vals[1], v)))
    /\ UNCHANGED <<lexVars, parseVars, runVars, vars, out, sets, checked>>

RetCompare ==
    /\ Returning({SymGreater, SymLess, SymEquals})
    /\ LET f == TopFrame
           v == ctl.tok
       IN  Go(BinaryStep(f, v, Front(stack),
                         IF f.k = 1 THEN Ok(v) ELSE Compare(At(f.node, 0).s, f.vals[1], v)))
    /\ UNCHANGED <<lexVars, parseVars, runVars, vars, out, sets, checked>>

\* Mutant: every value but False selects the then branch
IfBranch_Truthy(value) == IF value.tag # "False" THEN 2 ELSE 3

\* "if": after the condition the branch's call, after the branch its value
IfBranch(value) == IF IsTrue(value) THEN 2 ELSE 3

IfStep(f, v, rest) ==
    IF f.k = 1
    THEN CallOperand([Noted(f, v) EXCEPT !.vals = <<v>>], IfBranch(v), rest)
    ELSE RRet(v, f.path, Noted(f, v).hist, rest)

RetIf ==
    /\ Returning({SymIf})
    /\ Go(IfStep(TopFrame, ctl.tok, Front(stack)))
    /\ UNCHANGED <<lexVars, parseVars, runVars, vars, out, sets, checked>>

\* Mutant: the body's value is not assigned to value
WhileStep_NoAssign(f, v, rest) ==
    IF f.k = 1
    THEN (IF IsTrue(v) THEN CallOperand(Noted(f, v), 2, rest)
          ELSE RRet(f.vals[1], f.path, Noted(f, v).hist, rest))
    ELSE CallOperand(Noted(f, v), 1, rest)

\* "while": vals[1] is value.  After the condition the body's call or the
\* return of value; after the body value is assigned and the condition called.
WhileStep(f, v, rest) ==
    IF f.k = 1
    THEN (IF IsTrue(v) THEN CallOperand(Noted(f, v), 2, rest)
          ELSE RRet(f.vals[1], f.path, Noted(f, v).hist, rest))
    ELSE CallOperand([Noted(f, v) EXCEPT !.vals = <<v>>], 1, rest)

RetWhile ==
    /\ Returning({SymWhile})
    /\ Go(WhileStep(TopFrame, ctl.tok, Front(stack)))
    /\ UNCHANGED <<lexVars, parseVars, runVars, vars, out, sets, checked>>

\* Mutant: a do of one expression returns its value, not a List of it
DoStep_Unwrap(f, v, rest) ==
    LET g == [Noted(f, v) EXCEPT !.vals = Push(@, v)]
    IN  IF Has(f.node, f.k + 1) THEN CallOperand(g, f.k + 1, rest)
        ELSE RRet(IF Len(g.vals) = 1 THEN v ELSE List(g.vals), f.path, g.hist, rest)

\* "do": the fold over list[1..]; vals is acc
DoStep(f, v, rest) ==
    LET g == [Noted(f, v) EXCEPT !.vals = Push(@, v)]
    IN  IF Has(f.node, f.k + 1) THEN CallOperand(g, f.k + 1, rest)
        ELSE RRet(List(g.vals), f.path, g.hist, rest)

RetDo ==
    /\ Returning({SymDo})
    /\ Go(DoStep(TopFrame, ctl.tok, Front(stack)))
    /\ UNCHANGED <<lexVars, parseVars, runVars, vars, out, sets, checked>>

\* "set": list[2] has returned value
RetSet ==
    /\ Returning({SymSet})
    /\ LET f == TopFrame
           v == ctl.tok
       IN  /\ vars' = Insert(vars, SetKey(f.node), v)
           /\ sets' = Append(sets, [form |-> idx, key |-> At(f.node, 1), val |-> v])
           /\ Go(RRet(v, f.path, Noted(f, v).hist, Front(stack)))
    /\ UNCHANGED <<lexVars, parseVars, runVars, out, checked>>

\* "print": list[1] has returned value; println!("{:?}", value) writes it
RetPrint ==
    /\ Returning({SymPrint})
    /\ LET f == TopFrame
           v == ctl.tok
       IN  /\ out' = Append(out, v)
           /\ Go(RRet(v, f.path, Noted(f, v).hist, Front(stack)))
    /\ UNCHANGED <<lexVars, parseVars, runVars, vars, sets, checked>>

-----------------------------------------------------------------------------
(* fn run: the fold over ast *)

\* The map the closure hands to evaluate() for a node
ClosureVars(m) == NewMap

\* The closure is called on the next node: evaluate(&node, &mut HashMap::new())
RunEvaluate ==
    /\ pc = "fold"
    /\ idx < Len(ast)
    /\ idx' = idx + 1
    /\ vars' = ClosureVars(vars)
    /\ ctl' = [op |-> "eval", tok |-> ast[idx + 1], path |-> <<idx + 1>>, hist |-> <<>>]
    /\ pc' = "eval"
    /\ UNCHANGED <<lexVars, parseVars, ast, acc, stack, out, sets, err, checked>>

\* evaluate() returns to the closure: acc.push(...)
RunPush ==
    /\ pc = "eval"
    /\ ctl.op = "ret"
    /\ stack = <<>>
    /\ acc' = Push(acc, ctl.tok)
    /\ ctl' = NoCtl
    /\ pc' = "fold"
    /\ UNCHANGED <<lexVars, parseVars, ast, idx, vars, stack, out, sets, err, checked>>

\* Mutant: run returns what the fold has accumulated so far
RunReturn_Early ==
    /\ pc = "fold"
    /\ pc' = "done"
    /\ UNCHANGED <<lexVars, parseVars, runVars, evalVars, err, checked>>

\* The fold is over: run returns acc
RunReturn ==
    /\ pc = "fold"
    /\ idx = Len(ast)
    /\ pc' = "done"
    /\ UNCHANGED <<lexVars, parseVars, runVars, evalVars, err, checked>>

-----------------------------------------------------------------------------
(* Source texts for run() *)

\* (+ (- 10 5) (* 2 2))   (test::arith, main.rs:240)
Arith1 ==
    <<"(", "+", " ", "(", "-", " ", "1", "0", " ", "5", ")", " ", "(", "*",
      " ", "2", " ", "2", ")", ")">>

\* (+ (- 10 5) (* -2 10))   (test::arith, main.rs:244)
Arith2 ==
    <<"(", "+", " ", "(", "-", " ", "1", "0", " ", "5", ")", " ", "(", "*",
      " ", "-", "2", " ", "1", "0", ")", ")">>

\* (if (> 10 (* 3 3)) 1 2)   (test::branching, main.rs:251)
Branching1 ==
    <<"(", "i", "f", " ", "(", ">", " ", "1", "0", " ", "(", "*", " ", "3",
      " ", "3", ")", ")", " ", "1", " ", "2", ")">>

\* (if (< 10 (* 3 3)) 1 2)   (test::branching, main.rs:255)
Branching2 ==
    <<"(", "i", "f", " ", "(", "<", " ", "1", "0", " ", "(", "*", " ", "3",
      " ", "3", ")", ")", " ", "1", " ", "2", ")">>

\* \n            (do\n                (set i 5)\n                (while (> i 0) (do (print i) (set i (- i 1)))))\n               (test::iteration, main.rs:262-266)
Iteration ==
    <<"\n", " ", " ", " ", " ", " ", " ", " ", " ", " ", " ", " ", " ",
      "(", "d", "o", "\n", " ", " ", " ", " ", " ", " ", " ", " ", " ",
      " ", " ", " ", " ", " ", " ", " ", "(", "s", "e", "t", " ", "i", " ",
      "5", ")", "\n", " ", " ", " ", " ", " ", " ", " ", " ", " ", " ",
      " ", " ", " ", " ", " ", " ", "(", "w", "h", "i", "l", "e", " ", "(",
      ">", " ", "i", " ", "0", ")", " ", "(", "d", "o", " ", "(", "p", "r",
      "i", "n", "t", " ", "i", ")", " ", "(", "s", "e", "t", " ", "i", " ",
      "(", "-", " ", "i", " ", "1", ")", ")", ")", ")", ")", "\n", " ",
      " ", " ", " ", " ", " ", " ", " ", " ", " ", " ", " ">>

\* (do (set i 
CountdownHead ==
    <<"(", "d", "o", " ", "(", "s", "e", "t", " ", "i", " ">>

\* ) (while (> i 0) (do (print i) (set i (- i 1)))))
CountdownTail ==
    <<")", " ", "(", "w", "h", "i", "l", "e", " ", "(", ">", " ", "i", " ",
      "0", ")", " ", "(", "d", "o", " ", "(", "p", "r", "i", "n", "t", " ",
      "i", ")", " ", "(", "s", "e", "t", " ", "i", " ", "(", "-", " ", "i",
      " ", "1", ")", ")", ")", ")", ")">>

\* (set a 1) a   (a set in one top-level form, a reference in the next)
SetThenRef ==
    <<"(", "s", "e", "t", " ", "a", " ", "1", ")", " ", "a">>

\* (set a 1) (set b 2) (set a 3) b a c   (several forms setting and referencing)
SetSetRef ==
    <<"(", "s", "e", "t", " ", "a", " ", "1", ")", " ", "(", "s", "e", "t",
      " ", "b", " ", "2", ")", " ", "(", "s", "e", "t", " ", "a", " ", "3",
      ")", " ", "b", " ", "a", " ", "c">>

\* (do (set a 1) a) (do a (set a 2)) a   (sets nested in do, referenced later)
SetInDo ==
    <<"(", "d", "o", " ", "(", "s", "e", "t", " ", "a", " ", "1", ")", " ",
      "a", ")", " ", "(", "d", "o", " ", "a", " ", "(", "s", "e", "t", " ",
      "a", " ", "2", ")", ")", " ", "a">>

\* 1 -2 +3 x   (top-level atoms)
AtomsOnly ==
    <<"1", " ", "-", "2", " ", "+", "3", " ", "x">>

\* (+ 1 2   (spec.md, section 8)
UnmatchedOpen ==
    <<"(", "+", " ", "1", " ", "2">>

\* (print 1) (set a 2) (+ a 1   (complete forms before an unclosed one)
FormsThenOpen ==
    <<"(", "p", "r", "i", "n", "t", " ", "1", ")", " ", "(", "s", "e", "t",
      " ", "a", " ", "2", ")", " ", "(", "+", " ", "a", " ", "1">>

\* 1 ) 2
UnmatchedClose ==
    <<"1", " ", ")", " ", "2">>

\* )(
CloseOpen ==
    <<")", "(">>

\* (print 1) (set a 2) ?   (complete forms before a character no rule matches)
FormsThenBadChar ==
    <<"(", "p", "r", "i", "n", "t", " ", "1", ")", " ", "(", "s", "e", "t",
      " ", "a", " ", "2", ")", " ", "?">>

\* (print 1) \n (set a 2)\n#   (a character no rule matches, on a later line)
BadCharLine2 ==
    <<"(", "p", "r", "i", "n", "t", " ", "1", ")", " ", "\n", " ", "(",
      "s", "e", "t", " ", "a", " ", "2", ")", "\n", "#">>

\* (print 1) 2147483648   (an integer literal outside i32)
HugeLiteral ==
    <<"(", "p", "r", "i", "n", "t", " ", "1", ")", " ", "2", "1", "4", "7",
      "4", "8", "3", "6", "4", "8">>

\* (print 1) (set a 2) (+ a x) (print 3)   (a type error after complete forms)
FormsThenFault ==
    <<"(", "p", "r", "i", "n", "t", " ", "1", ")", " ", "(", "s", "e", "t",
      " ", "a", " ", "2", ")", " ", "(", "+", " ", "a", " ", "x", ")", " ",
      "(", "p", "r", "i", "n", "t", " ", "3", ")">>

\* (print 1) (foo) 2   (an unbound symbol in call position)
UnknownCall ==
    <<"(", "p", "r", "i", "n", "t", " ", "1", ")", " ", "(", "f", "o", "o",
      ")", " ", "2">>

\* (do (set foo 7) (foo 1 2))   (a bound symbol in call position)
BoundCall ==
    <<"(", "d", "o", " ", "(", "s", "e", "t", " ", "f", "o", "o", " ", "7",
      ")", " ", "(", "f", "o", "o", " ", "1", " ", "2", ")", ")">>

\* 7 (1 2)   (a list whose first item is an Int)
IntHead ==
    <<"7", " ", "(", "1", " ", "2", ")">>

\* ()   (list.first() is None)
EmptyList ==
    <<"(", ")">>

\* (print (= 1 a)) (> 1 a)   (Int against Symbol)
CompareMixed ==
    <<"(", "p", "r", "i", "n", "t", " ", "(", "=", " ", "1", " ", "a", ")",
      ")", " ", "(", ">", " ", "1", " ", "a", ")">>

\* (print 5) (+ 2147483647 1)   (i32 overflow)
Overflow ==
    <<"(", "p", "r", "i", "n", "t", " ", "5", ")", " ", "(", "+", " ", "2",
      "1", "4", "7", "4", "8", "3", "6", "4", "7", " ", "1", ")">>

\* The decimal digits of n >= 0
DigitChar(d) == <<"0", "1", "2", "3", "4", "5", "6", "7", "8", "9">>[d + 1]
RECURSIVE Decimal(_)
Decimal(n) == IF n < 10 THEN <<DigitChar(n)>> ELSE Decimal(n \div 10) \o <<DigitChar(n % 10)>>

\* "(do (set i n) (while (> i 0) (do (print i) (set i (- i 1)))))"
Countdown(n) == CountdownHead \o Decimal(n) \o CountdownTail

MaxCount == 5

Programs ==
    {Arith1, Arith2, Branching1, Branching2, Iteration,
     SetThenRef, SetSetRef, SetInDo, AtomsOnly,
     UnmatchedOpen, FormsThenOpen, UnmatchedClose, CloseOpen,
     FormsThenBadChar, BadCharLine2, HugeLiteral,
     FormsThenFault, UnknownCall, BoundCall, IntHead, EmptyList,
     CompareMixed, Overflow}
    \cup {Countdown(n) : n \in 0..MaxCount}

-----------------------------------------------------------------------------
(* run(text): Lexer::new(text), then parse(lexer) up to its for loop *)

InitRun(t) ==
    /\ text = t
    /\ current_pos = 0
    /\ line = 0
    /\ toks = <<>>
    /\ cur = <<>>
    /\ list_stack = <<<<>>>>
    /\ curr_list = 0
    /\ ast = <<>>
    /\ idx = 0
    /\ acc = <<>>
    /\ vars = NewMap
    /\ ctl = NoCtl
    /\ stack = <<>>
    /\ out = <<>>
    /\ sets = <<>>
    /\ pc = "lex"
    /\ err = ""

Init ==
    /\ checked \in BOOLEAN
    /\ \E t \in Programs : InitRun(t)

LexNext == LexEnd \/ LexEmit \/ LexSkip \/ LexPanic
ParseNext == ParseToken \/ ParseEnd
EvalNext ==
    \/ EvalAtom \/ EvalSymbol \/ EvalList
    \/ RetArith \/ RetCompare \/ RetIf \/ RetWhile \/ RetDo \/ RetSet \/ RetPrint
RunNext == RunEvaluate \/ RunPush \/ RunReturn

Next == LexNext \/ ParseNext \/ EvalNext \/ RunNext

Spec == Init /\ [][Next]_vars_all

-----------------------------------------------------------------------------
(* Trees for evaluate(): what parse() returns on the corresponding texts.   *)
(* They hold Int, Symbol and List only; True, False and List values arise   *)
(* from evaluation.                                                          *)

Sy(c) == Symbol(<<c>>)
Form(head, args) == List(<<Symbol(head)>> \o args)

MaxInt == 2
MaxDo == 3
MaxSets == 2

\* Sequences over S of length 0..n
RECURSIVE SeqsUpTo(_, _)
SeqsUpTo(S, n) ==
    IF n = 0 THEN {<<>>}
    ELSE LET shorter == SeqsUpTo(S, n - 1)
         IN  shorter \cup {Append(q, e) : q \in {r \in shorter : Len(r) = n - 1}, e \in S}

IntLeaves == {IntT(n) : n \in -MaxInt..MaxInt}
BigLeaves == {IntT(I32Max), IntT(I32Min)}
SymLeaves == {Sy("a"), Symbol(<<"a", "b">>), Sy("B")}
\* (- 10 5), (* 2 2), (* -2 10), (+ 1 1)
NestedArith ==
    {Form(SymMinus, <<IntT(10), IntT(5)>>), Form(SymTimes, <<IntT(2), IntT(2)>>),
     Form(SymTimes, <<IntT(-2), IntT(10)>>), Form(SymPlus, <<IntT(1), IntT(1)>>)}
\* (> 1 0) is True, (< 1 0) is False, (do) and (do 1) are Lists
MakeTrue == Form(SymGreater, <<IntT(1), IntT(0)>>)
MakeFalse == Form(SymLess, <<IntT(1), IntT(0)>>)
MakeOther == {MakeTrue, MakeFalse, Form(SymDo, <<>>), Form(SymDo, <<IntT(1)>>)}

Operands == IntLeaves \cup BigLeaves \cup SymLeaves \cup NestedArith \cup MakeOther
BinaryOps == {SymPlus, SymMinus, SymTimes, SymGreater, SymLess, SymEquals}

\* (op x y), and the forms with an operand missing
BinaryTrees ==
    {Form(op, <<x, y>>) : op \in BinaryOps, x \in Operands, y \in Operands}
    \cup {Form(op, <<x>>) : op \in BinaryOps, x \in {IntT(1)}}
    \cup {Form(op, <<>>) : op \in BinaryOps}

\* (if c X Y) and (if c X)
Conds ==
    {MakeTrue, MakeFalse, IntT(1), Sy("a"), Form(SymDo, <<>>),
     Form(SymEquals, <<Sy("a"), Sy("a")>>), Form(SymSet, <<Sy("a"), MakeTrue>>),
     Form(SymPrint, <<MakeTrue>>)}
Branches ==
    {IntT(1), Sy("a"), Form(SymSet, <<Sy("a"), IntT(1)>>), Form(SymPrint, <<IntT(2)>>),
     Form(SymDo, <<Form(SymSet, <<Sy("b"), IntT(3)>>), Form(SymPrint, <<Sy("b")>>)>>)}
IfTrees ==
    {Form(SymIf, <<c, x, y>>) : c \in Conds, x \in Branches, y \in Branches}
    \cup {Form(SymIf, <<c, x>>) : c \in Conds, x \in Branches}

\* (do (set i n) (while (> i 0) (do (print i) (set i (- i 1)))))
CountdownTree(n) ==
    Form(SymDo,
         <<Form(SymSet, <<Sy("i"), IntT(n)>>),
           Form(SymWhile,
                <<Form(SymGreater, <<Sy("i"), IntT(0)>>),
                  Form(SymDo, <<Form(SymPrint, <<Sy("i")>>),
                                Form(SymSet, <<Sy("i"),
                                               Form(SymMinus, <<Sy("i"), IntT(1)>>)>>)>>)>>)>>)
\* (do (set i 0) (while (< i n) (set i (+ i 1))))
CountUpTree(n) ==
    Form(SymDo,
         <<Form(SymSet, <<Sy("i"), IntT(0)>>),
           Form(SymWhile,
                <<Form(SymLess, <<Sy("i"), IntT(n)>>),
                  Form(SymSet, <<Sy("i"), Form(SymPlus, <<Sy("i"), IntT(1)>>)>>)>>)>>)
\* (do (set i n) (while (> i 0) (do (set j i) (while (> j 0) (set j (- j 1)))
\*                                  (set i (- i 1)))))
NestedLoopTree(n) ==
    Form(SymDo,
         <<Form(SymSet, <<Sy("i"), IntT(n)>>),
           Form(SymWhile,
                <<Form(SymGreater, <<Sy("i"), IntT(0)>>),
                  Form(SymDo,
                       <<Form(SymSet, <<Sy("j"), Sy("i")>>),
                         Form(SymWhile,
                              <<Form(SymGreater, <<Sy("j"), IntT(0)>>),
                                Form(SymSet, <<Sy("j"),
                                               Form(SymMinus, <<Sy("j"), IntT(1)>>)>>)>>),
                         Form(SymSet, <<Sy("i"),
                                        Form(SymMinus, <<Sy("i"), IntT(1)>>)>>)>>)>>)>>)
\* (while c 2) for a condition that is not True the first time; (while c);
\* (do (set t (> 1 0)) (while t (set t 5))): the body runs once;
\* (while (> i 0) 1): Symbol against Int
WhileTrees ==
    {CountdownTree(n) : n \in 0..MaxCount}
    \cup {CountUpTree(n) : n \in 0..MaxCount}
    \cup {NestedLoopTree(n) : n \in 0..MaxCount}
    \cup {Form(SymWhile, <<c, IntT(2)>>) :
            c \in {MakeFalse, IntT(1), Sy("a"), Form(SymDo, <<>>)}}
    \cup {Form(SymWhile, <<c>>) : c \in {MakeFalse, MakeTrue}}
    \cup {Form(SymDo, <<Form(SymSet, <<Sy("t"), MakeTrue>>),
                        Form(SymWhile, <<Sy("t"), Form(SymSet, <<Sy("t"), IntT(5)>>)>>)>>),
          Form(SymWhile, <<Form(SymGreater, <<Sy("i"), IntT(0)>>), IntT(1)>>)}

\* (do e1 ... eN), N <= MaxDo
DoItems ==
    {IntT(1), Sy("a"), Form(SymSet, <<Sy("a"), IntT(2)>>), Form(SymPrint, <<Sy("a")>>)}
DoTrees == {Form(SymDo, es) : es \in SeqsUpTo(DoItems, MaxDo)}

\* (do s1 ... sn a b), n <= MaxSets: sets of a and b to an Int, to each other
\* and to a nested set, a set under a key that is no Symbol, then references
SetForms ==
    {Form(SymSet, <<x, e>>) : x \in {Sy("a"), Sy("b")}, e \in {IntT(1), Sy("a"), Sy("b")}}
    \cup {Form(SymSet, <<Sy("a"), Form(SymSet, <<Sy("b"), IntT(2)>>)>>),
          Form(SymSet, <<IntT(1), IntT(2)>>)}
SetTrees ==
    {Form(SymDo, ss \o <<Sy("a"), Sy("b")>>) : ss \in SeqsUpTo(SetForms, MaxSets)}
    \cup {Form(SymSet, <<Sy("a")>>), Form(SymSet, <<>>), Form(SymPrint, <<>>)}

\* Lists whose first item is no operator: (f), (do (set f 1) (f 2)),
\* (do f (f)), (do (set g 1) g (f g)), (do (set f (do 1)) (f (1) (print 2))),
\* (1 2), ((do) 1), ()
CallTrees ==
    {Form(<<"f">>, <<>>),
     Form(SymDo, <<Form(SymSet, <<Sy("f"), IntT(1)>>), Form(<<"f">>, <<IntT(2)>>)>>),
     Form(SymDo, <<Sy("f"), Form(<<"f">>, <<>>)>>),
     Form(SymDo, <<Form(SymSet, <<Sy("g"), IntT(1)>>), Sy("g"), Form(<<"f">>, <<Sy("g")>>)>>),
     Form(SymDo, <<Form(SymSet, <<Sy("f"), Form(SymDo, <<IntT(1)>>)>>),
                   Form(<<"f">>, <<List(<<IntT(1)>>), Form(SymPrint, <<IntT(2)>>)>>)>>),
     List(<<IntT(1), IntT(2)>>), List(<<Form(SymDo, <<>>), IntT(1)>>), List(<<>>)}

EvalTrees == BinaryTrees \cup IfTrees \cup WhileTrees \cup DoTrees \cup SetTrees \cup CallTrees

\* run() after parse() has returned <<tree>>
InitEval ==
    /\ checked \in BOOLEAN
    /\ text = <<>>
    /\ current_pos = 0
    /\ line = 0
    /\ toks = <<>>
    /\ cur = <<>>
    /\ list_stack = <<<<>>>>
    /\ curr_list = 0
    /\ \E tree \in EvalTrees : ast = <<tree>>
    /\ idx = 0
    /\ acc = <<>>
    /\ vars = NewMap
    /\ ctl = NoCtl
    /\ stack = <<>>
    /\ out = <<>>
    /\ sets = <<>>
    /\ pc = "fold"
    /\ err = ""

NextEval == EvalNext \/ RunNext

SpecEval == InitEval /\ [][NextEval]_vars_all

-----------------------------------------------------------------------------
(* run() is one thread of control: a step that can be taken is taken *)

FairSpec == Spec /\ WF_vars_all(Next)

-----------------------------------------------------------------------------
(* parse(Lexer::new(text)) on every text of up to MaxTextLen characters     *)
(* over parentheses, an atom and a space, and on the unbalanced texts above *)

MaxTextLen == 6
ParseAlphabet == {"(", ")", "a", " "}
ParseTexts ==
    SeqsUpTo(ParseAlphabet, MaxTextLen) \cup {UnmatchedOpen, FormsThenOpen, UnmatchedClose}

InitParse ==
    /\ checked \in BOOLEAN
    /\ \E t \in ParseTexts : InitRun(t)

NextParse == LexEnd \/ LexEmit \/ LexSkip \/ ParseNext

SpecParse == InitParse /\ [][NextParse]_vars_all

-----------------------------------------------------------------------------
(* Lexer::next() as the for loop of parse() calls it, on every text of up   *)
(* to MaxLexLen characters over LexAlphabet and on the texts below           *)

\* (+ 1 2)   (spec.md, section 8)
PlusOneTwo ==
    <<"(", "+", " ", "1", " ", "2", ")">>

\* (- i -1)
MinusIMinus1 ==
    <<"(", "-", " ", "i", " ", "-", "1", ")">>

\* +7 + 7 *a +b <= x9 Ab   (signs, operators and names)
SignsAndNames ==
    <<"+", "7", " ", "+", " ", "7", " ", "*", "a", " ", "+", "b", " ", "<",
      "=", " ", "x", "9", " ", "A", "b">>

\* a\t\nb \r\nc\n\n d\n?   (newlines after a tab, after a space and a carriage return, after a newline)
MixedNewlines ==
    <<"a", "\t", "\n", "b", " ", "\r", "\n", "c", "\n", "\n", " ", "d", "\n", "?">>

\* 1\r\n2\r\n?   (CRLF line ends)
CrLf ==
    <<"1", "\r", "\n", "2", "\r", "\n", "?">>

\* -2147483648 2147483647 -2147483649   (the ends of i32, and one beyond)
LiteralLimits ==
    <<"-", "2", "1", "4", "7", "4", "8", "3", "6", "4", "8", " ", "2", "1",
      "4", "7", "4", "8", "3", "6", "4", "7", " ", "-", "2", "1", "4", "7",
      "4", "8", "3", "6", "4", "9">>

MaxLexLen == 4
LexAlphabet == {"(", "-", "*", "1", "i", " ", "\n", "?"}
LexTexts ==
    SeqsUpTo(LexAlphabet, MaxLexLen)
    \cup {PlusOneTwo, MinusIMinus1, SignsAndNames, MixedNewlines, CrLf, LiteralLimits,
          AtomsOnly, HugeLiteral, BadCharLine2, Iteration, UnmatchedClose}

InitLex ==
    /\ checked \in BOOLEAN
    /\ \E t \in LexTexts : InitRun(t)

NextLex == LexNext \/ ParseNext

SpecLex == InitLex /\ [][NextLex]_vars_all

\* The for loop of parse() pulls the next Token as soon as it has handled one
FairLex == SpecLex /\ WF_vars_all(NextLex)

-----------------------------------------------------------------------------
(* Properties *)

\* The node of ast at path <<form, k1, ..., kn>>: ast[form], then list[k] down
RECURSIVE Descend(_, _)
Descend(node, ks) == IF ks = <<>> THEN node ELSE Descend(At(node, Head(ks)), Tail(ks))
NodeAt(path) == Descend(ast[Head(path)], Tail(path))

\* evaluate() is returning from the node at ctl.path
Returns == pc = "eval" /\ ctl.op = "ret"
\* ... which is a bare Symbol
ReturnsFromSymbol == Returns /\ NodeAt(ctl.path).tag = "Symbol"
\* ... which is a List whose first item is one of the symbols syms
ReturnsFrom(syms) ==
    /\ Returns
    /\ NodeAt(ctl.path).tag = "List"
    /\ NodeAt(ctl.path).items # <<>>
    /\ At(NodeAt(ctl.path), 0).tag = "Symbol"
    /\ At(NodeAt(ctl.path), 0).s \in syms

\* The places in sets of the sets of the Symbol named symbol, in the
\* top-level forms from..idx
SetsOf(symbol, from) ==
    {i \in 1..Len(sets) : sets[i].key = Symbol(symbol) /\ sets[i].form >= from}
Max(S) == CHOOSE m \in S : \A x \in S : x <= m

\* C1: a reference to a symbol that an earlier top-level form of the run set
\* (and no later set changed) evaluates to the value last set.
C1_SetVisibleToLaterForms ==
    ReturnsFromSymbol =>
        LET symbol == NodeAt(ctl.path).s
            before == SetsOf(symbol, 1)
        IN  (before # {} /\ sets[Max(before)].form < idx)
                => ctl.tok = sets[Max(before)].val

\* C2: within one tree a bare symbol evaluates to the value of the last
\* (set s e) that returned, or to Symbol(s) if there was none; (set s e)
\* binds the value of e under its literal first operand and returns it.
C2_SetThenReference ==
    /\ ReturnsFromSymbol =>
         LET symbol == NodeAt(ctl.path).s
             here == SetsOf(symbol, idx)
         IN  ctl.tok = IF here = {} THEN Symbol(symbol) ELSE sets[Max(here)].val
    /\ ReturnsFrom({SymSet}) =>
         /\ ctl.hist = <<[k |-> 2, val |-> ctl.tok]>>
         /\ sets # <<>>
         /\ Last(sets) = [form |-> idx, key |-> At(NodeAt(ctl.path), 1), val |-> ctl.tok]
         /\ At(NodeAt(ctl.path), 1) \in DOMAIN vars
         /\ vars[At(NodeAt(ctl.path), 1)] = ctl.tok

\* C2's case: a is referenced after it was bound to a Symbol and then to an Int
C2_Witness ==
    /\ ReturnsFromSymbol
    /\ NodeAt(ctl.path) = Sy("a")
    /\ ctl.tok.tag = "Int"
    /\ \E i, j \in SetsOf(<<"a">>, idx) : i < j /\ sets[i].val.tag = "Symbol"

\* The two operand values of a returning binary form
Lhs == ctl.hist[1].val
Rhs == ctl.hist[2].val
BothInt == Lhs.tag = "Int" /\ Rhs.tag = "Int"
BothSymbol == Lhs.tag = "Symbol" /\ Rhs.tag = "Symbol"
\* The first item of the returning form
Head0 == At(NodeAt(ctl.path), 0).s
\* A binary form evaluated list[1], then list[2], each once
TwoOperands == Len(ctl.hist) = 2 /\ ctl.hist[1].k = 1 /\ ctl.hist[2].k = 2

\* (+ (- 10 5) (* 2 2)) and (+ (- 10 5) (* -2 10))
ArithTree1 ==
    Form(SymPlus, <<Form(SymMinus, <<IntT(10), IntT(5)>>), Form(SymTimes, <<IntT(2), IntT(2)>>)>>)
ArithTree2 ==
    Form(SymPlus, <<Form(SymMinus, <<IntT(10), IntT(5)>>), Form(SymTimes, <<IntT(-2), IntT(10)>>)>>)

\* C3: with Int operand values a and b, whatever expressions produced them,
\* and a result inside i32, (+ x y) is Int(a+b), (- x y) is Int(a-b) and
\* (* x y) is Int(a*b); the two trees of test::arith give Int(9) and Int(-15).
C3_Arithmetic ==
    /\ ReturnsFrom({SymPlus, SymMinus, SymTimes}) =>
         /\ TwoOperands
         /\ BothInt
         /\ (Head0 = SymPlus /\ ~AddOverflows(Lhs.n, Rhs.n)) => ctl.tok = IntT(Lhs.n + Rhs.n)
         /\ (Head0 = SymMinus /\ ~SubOverflows(Lhs.n, Rhs.n)) => ctl.tok = IntT(Lhs.n - Rhs.n)
         /\ (Head0 = SymTimes /\ ~MulOverflows(Lhs.n, Rhs.n)) => ctl.tok = IntT(Lhs.n * Rhs.n)
    /\ (pc = "done" /\ ast = <<ArithTree1>>) => acc = <<IntT(9)>>
    /\ (pc = "done" /\ ast = <<ArithTree2>>) => acc = <<IntT(-15)>>

\* C3's case: a subtraction of nested operands, the larger one first
C3_Witness ==
    /\ ReturnsFrom({SymMinus})
    /\ NodeAt(ctl.path).items[2].tag = "List"
    /\ NodeAt(ctl.path).items[3].tag = "List"
    /\ Lhs.n > Rhs.n
    /\ ctl.tok = IntT(Lhs.n - Rhs.n)

\* C4: on two Ints, (> a b), (< a b) and (= a b) are True exactly when a > b,
\* a < b and a = b, and False otherwise.
C4_IntComparison ==
    (ReturnsFrom({SymGreater, SymLess, SymEquals}) /\ BothInt) =>
        /\ TwoOperands
        /\ ctl.tok \in {True, False}
        /\ Head0 = SymGreater => (ctl.tok = True <=> Lhs.n > Rhs.n)
        /\ Head0 = SymLess => (ctl.tok = True <=> Lhs.n < Rhs.n)
        /\ Head0 = SymEquals => (ctl.tok = True <=> Lhs.n = Rhs.n)

\* C4's case: (< a b) with a < b is True
C4_Witness ==
    /\ ReturnsFrom({SymLess})
    /\ BothInt
    /\ Lhs.n < Rhs.n
    /\ ctl.tok = True

\* Two values that are neither both Int nor both Symbol
Mismatched(v, w) ==
    ~((v.tag = "Int" /\ w.tag = "Int") \/ (v.tag = "Symbol" /\ w.tag = "Symbol"))
CmpPanic == pc = "panic" /\ err = "comparison works only for numbers and symbols"
\* The form on top of the stack has one of the symbols syms and ctl holds the
\* value of its second operand
HoldsSecondOperandOf(syms) ==
    /\ ctl.op = "ret"
    /\ stack # <<>>
    /\ At(TopFrame.node, 0).s \in syms
    /\ TopFrame.k = 2
\* ... and the operator is about to be applied
SecondOperandOf(syms) == pc = "eval" /\ HoldsSecondOperandOf(syms)

\* C5 as claimed: none of (> x y), (< x y), (= x y) returns a value when the
\* operand values are neither both Int nor both Symbol.
C5_Claimed ==
    ReturnsFrom({SymGreater, SymLess, SymEquals}) => ~Mismatched(Lhs, Rhs)

\* C5 amended: (> x y) and (< x y) panic, and return nothing, when the operand
\* values are neither both Int nor both Symbol; (= x y) never panics and is
\* True for structurally equal values and False otherwise, so False for
\* values of different variants.
C5_ComparisonFaults ==
    /\ [](/\ ReturnsFrom({SymGreater, SymLess}) => ~Mismatched(Lhs, Rhs)
          /\ ReturnsFrom({SymEquals}) =>
               /\ TwoOperands
               /\ ctl.tok = (IF Lhs = Rhs THEN True ELSE False)
               /\ Lhs.tag # Rhs.tag => ctl.tok = False
          /\ CmpPanic =>
               /\ HoldsSecondOperandOf({SymGreater, SymLess})
               /\ Mismatched(TopFrame.vals[1], ctl.tok))
    /\ [][/\ (SecondOperandOf({SymGreater, SymLess}) /\ Mismatched(TopFrame.vals[1], ctl.tok))
               => (CmpPanic' /\ acc' = acc)
          /\ SecondOperandOf({SymEquals}) => pc' = "eval"]_vars_all

\* C5's case: (> x y) on an Int and a Symbol has panicked
C5_Witness ==
    /\ CmpPanic
    /\ At(TopFrame.node, 0).s = SymGreater
    /\ TopFrame.vals[1].tag = "Int"
    /\ ctl.tok.tag = "Symbol"

\* The number of forms with the first item symbol in a tree
RECURSIVE SumOver(_, _, _)
RECURSIVE FormsIn(_, _)
SumOver(items, symbol, i) ==
    IF i > Len(items) THEN 0 ELSE FormsIn(items[i], symbol) + SumOver(items, symbol, i + 1)
FormsIn(tree, symbol) ==
    IF tree.tag # "List" THEN 0
    ELSE (IF tree.items # <<>> /\ tree.items[1] = Symbol(symbol) THEN 1 ELSE 0)
         + SumOver(tree.items, symbol, 1)

\* The conditions of Conds whose value is True: (> 1 0), (= a a),
\* (set a (> 1 0)) and (print (> 1 0))
TrueConds ==
    {MakeTrue, Form(SymEquals, <<Sy("a"), Sy("a")>>), Form(SymSet, <<Sy("a"), MakeTrue>>),
     Form(SymPrint, <<MakeTrue>>)}

\* C6: (if c X Y) evaluates c once and then exactly one branch, X exactly when
\* the value of c is True, and returns that branch's value; on the trees
\* (if c X Y) the prints and sets that have happened when run returns are
\* those of c and of the selected branch alone.
C6_IfSelectsOneBranch ==
    /\ ReturnsFrom({SymIf}) =>
         /\ Len(ctl.hist) = 2
         /\ ctl.hist[1].k = 1
         /\ ctl.hist[2].k = (IF ctl.hist[1].val = True THEN 2 ELSE 3)
         /\ ctl.tok = ctl.hist[2].val
    /\ (pc = "done" /\ ast[1] \in IfTrees) =>
         LET c == At(ast[1], 1)
             selected == IF c \in TrueConds THEN At(ast[1], 2) ELSE At(ast[1], 3)
         IN  /\ Len(out) = FormsIn(c, SymPrint) + FormsIn(selected, SymPrint)
             /\ Len(sets) = FormsIn(c, SymSet) + FormsIn(selected, SymSet)

\* C6's case: the condition is an Int, the else branch is returned and the
\* (print 2) of the then branch has not happened
C6_Witness ==
    /\ ReturnsFrom({SymIf})
    /\ ctl.hist[1].val.tag = "Int"
    /\ ctl.hist[2].k = 3
    /\ At(NodeAt(ctl.path), 2) = Form(SymPrint, <<IntT(2)>>)
    /\ out = <<>>

\* The operand evaluations of a while are condition, body, condition, ...,
\* and every condition followed by another evaluation was True
Alternates(h) ==
    \A i \in 1..Len(h) :
        /\ h[i].k = (IF i % 2 = 1 THEN 1 ELSE 2)
        /\ (i % 2 = 1 /\ i < Len(h)) => h[i].val = True

\* C7: (while c B) evaluates c, then B and c again each time c was True, and
\* stops the first time c is not True: c is evaluated once more than B, and
\* the value is that of the last B, or False if B never ran.
C7_WhileAlternates ==
    /\ ReturnsFrom({SymWhile}) =>
         /\ Alternates(ctl.hist)
         /\ Len(ctl.hist) % 2 = 1
         /\ Last(ctl.hist).val # True
         /\ ctl.tok = (IF Len(ctl.hist) = 1 THEN False
                       ELSE ctl.hist[Len(ctl.hist) - 1].val)
    /\ \A d \in 1..Len(stack) :
         (pc = "eval" /\ At(stack[d].node, 0).s = SymWhile) =>
             /\ Alternates(stack[d].hist)
             /\ stack[d].k = (IF Len(stack[d].hist) % 2 = 0 THEN 1 ELSE 2)
             /\ Len(stack[d].hist) % 2 = 1 => Last(stack[d].hist).val = True

\* C7's case: the body ran at least twice and the loop returns its last value
C7_Witness ==
    /\ ReturnsFrom({SymWhile})
    /\ Len(ctl.hist) >= 5
    /\ ctl.tok = ctl.hist[Len(ctl.hist) - 1].val
    /\ ctl.tok # False

SetA2 == Form(SymSet, <<Sy("a"), IntT(2)>>)

\* C8: (do e1 ... eN) evaluates e1..eN once each, in order, and returns the
\* List of their N values; on the trees of DoTrees a reference to a after a
\* (set a 2) of the same do has the value Int(2), and Symbol(a) before.
C8_DoCollects ==
    /\ ReturnsFrom({SymDo}) =>
         LET n == Len(NodeAt(ctl.path).items) - 1 IN
         /\ Len(ctl.hist) = n
         /\ \A i \in 1..n : ctl.hist[i].k = i
         /\ ctl.tok = List([i \in 1..n |-> ctl.hist[i].val])
    /\ (ReturnsFrom({SymDo}) /\ ctl.path = <<1>> /\ ast[1] \in DoTrees) =>
         \A j \in 1..Len(ctl.hist) :
             At(ast[1], j) \in {Sy("a"), Form(SymPrint, <<Sy("a")>>)} =>
                 ctl.hist[j].val = (IF \E i \in 1..(j - 1) : At(ast[1], i) = SetA2
                                    THEN IntT(2) ELSE Sy("a"))

\* C8's case: (do (set a 2) a e3) returns three values, the second Int(2)
C8_Witness ==
    /\ ReturnsFrom({SymDo})
    /\ ctl.path = <<1>>
    /\ Len(ctl.hist) = 3
    /\ At(ast[1], 1) = SetA2
    /\ At(ast[1], 2) = Sy("a")
    /\ ctl.tok.tag = "List"
    /\ ctl.tok.items[2] = IntT(2)

Countdowns == {Countdown(n) : n \in 0..MaxCount}
\* The values Int(n), Int(n-1), ..., Int(1)
Descending(n) == [i \in 1..n |-> IntT(n + 1 - i)]

\* C9: the countdown from n never panics and ends; when run returns, print
\* has written n, n-1, ..., 1, i is bound to 0 and the one result is the List
\* of the outer do.  With n = 5 that is 5,4,3,2,1, also for the text of
\* test::iteration.
C9_Countdown ==
    /\ [](\A n \in 0..MaxCount :
            (text = Countdown(n) /\ pc = "done") =>
                /\ out = Descending(n)
                /\ vars = [k \in {Sy("i")} |-> IntT(0)]
                /\ acc = <<List(<<IntT(n),
                                  IF n = 0 THEN False ELSE List(<<IntT(1), IntT(0)>>)>>)>>)
    /\ []((text = Iteration /\ pc = "done") =>
            /\ out = <<IntT(5), IntT(4), IntT(3), IntT(2), IntT(1)>>
            /\ Len(acc) = 1
            /\ acc[1].tag = "List")
    /\ [](text \in Countdowns \cup {Iteration} => pc # "panic")
    /\ (text \in Countdowns \cup {Iteration}) ~> (pc = "done")

\* C9's case: the countdown from 5 has returned after five prints
C9_Witness ==
    /\ pc = "done"
    /\ text = Countdown(5)
    /\ Len(out) = 5
    /\ out[1] = IntT(5)
    /\ out[5] = IntT(1)

\* The number of characters c in a text
RECURSIVE Count(_, _)
Count(t, c) == IF t = <<>> THEN 0 ELSE (IF Head(t) = c THEN 1 ELSE 0) + Count(Tail(t), c)
MoreOpens(t) == Count(t, "(") > Count(t, ")")
\* The end of the shortest prefix of t with more ")" than "(", 0 if none
FirstUnmatchedClose(t) ==
    LET under == {i \in 1..Len(t) : Count(SubSeq(t, 1, i), ")") > Count(SubSeq(t, 1, i), "(")}
    IN  IF under = {} THEN 0 ELSE CHOOSE i \in under : \A j \in under : i <= j
ParseReturned == pc \in {"fold", "eval", "done"}

\* C10 as claimed: with more Opens than Closes parse returns no tree, and
\* panics only after the tokens are exhausted.
C10_Claimed ==
    MoreOpens(text) =>
        /\ ~ParseReturned
        /\ ast = <<>>
        /\ pc = "panic" => (current_pos = Len(text) /\ err = "unmatched parenthesis")

\* C10 amended: with more Opens than Closes parse returns no tree, whatever
\* top-level forms it has completed; it panics after the tokens are exhausted
\* when no Close was unmatched, and at the first unmatched Close otherwise.
\* parse returns only with exactly one list left on its stack.
C10_UnmatchedOpen ==
    /\ MoreOpens(text) =>
         /\ ~ParseReturned
         /\ ast = <<>>
         /\ pc = "panic" =>
              IF FirstUnmatchedClose(text) = 0
              THEN /\ current_pos = Len(text)
                   /\ err = "unmatched parenthesis"
                   /\ Len(list_stack) = 1 + Count(text, "(") - Count(text, ")")
              ELSE /\ current_pos = FirstUnmatchedClose(text)
                   /\ err = (IF checked THEN "attempt to subtract with overflow"
                             ELSE "index out of bounds")
    /\ ParseReturned => (Len(list_stack) = 1 /\ ast = list_stack[1])

\* C10's case: the tokens are exhausted with a list left open, after a
\* completed top-level form, and nothing is returned
C10_Witness ==
    /\ MoreOpens(text)
    /\ pc = "panic"
    /\ err = "unmatched parenthesis"
    /\ current_pos = Len(text)
    /\ list_stack[1] # <<>>
    /\ ast = <<>>

\* C11: when a prefix of the text has more Closes than Opens, parse never
\* returns a tree and never reads past the first unmatched Close: it panics
\* on that Close, whatever follows it, in a build with overflow checks (the
\* subtraction on curr_list) and in one without (the index into list_stack).
C11_UnmatchedClose ==
    FirstUnmatchedClose(text) > 0 =>
        /\ ~ParseReturned
        /\ pc # "end"
        /\ ast = <<>>
        /\ current_pos <= FirstUnmatchedClose(text)
        /\ current_pos = FirstUnmatchedClose(text) =>
              \/ pc = "parse" /\ cur = <<Close>> /\ curr_list = 0
              \/ /\ pc = "panic"
                 /\ err = (IF checked THEN "attempt to subtract with overflow"
                           ELSE "index out of bounds")
        /\ pc = "panic" => current_pos = FirstUnmatchedClose(text)

\* C11's case: parse has panicked on the Close of "1 ) 2", with " 2" unread
C11_Witness ==
    /\ text = UnmatchedClose
    /\ pc = "panic"
    /\ current_pos = 3
    /\ toks = <<IntT(1), Close>>
    /\ ast = <<>>

\* A text over ParseAlphabet is balanced: no prefix has more ")" than "(",
\* and the whole text has as many
Balanced(t) == FirstUnmatchedClose(t) = 0 /\ Count(t, "(") = Count(t, ")")
\* The place of the ")" that closes the "(" at the head of t
MatchingClose(t) ==
    CHOOSE j \in 1..Len(t) :
        /\ Count(SubSeq(t, 1, j), "(") = Count(SubSeq(t, 1, j), ")")
        /\ \A i \in 1..(j - 1) : Count(SubSeq(t, 1, i), "(") > Count(SubSeq(t, 1, i), ")")
\* What a balanced text over ParseAlphabet denotes: each parenthesized group
\* one List of what its inside denotes, each run of "a" one Symbol, in order
RECURSIVE Groups(_)
Groups(t) ==
    IF t = <<>> THEN <<>>
    ELSE IF Head(t) = "("
    THEN LET j == MatchingClose(t)
         IN  <<List(Groups(SubSeq(t, 2, j - 1)))>> \o Groups(SubSeq(t, j + 1, Len(t)))
    ELSE IF Head(t) = " " THEN Groups(Tail(t))
    ELSE LET m == Run(t, {"a"})
         IN  <<Symbol(SubSeq(t, 1, m))>> \o Groups(SubSeq(t, m + 1, Len(t)))
\* No Open and no Close among the Values v, at any depth
RECURSIVE NoParens(_)
NoParens(v) ==
    \A i \in 1..Len(v) :
        /\ v[i].tag \notin {"Open", "Close"}
        /\ v[i].tag = "List" => NoParens(v[i].items)
\* The deepest nesting of Lists among the Values v, 0 if there is no List
RECURSIVE ListDepth(_)
ListDepth(v) ==
    Max({0} \cup {1 + ListDepth(v[i].items) : i \in {k \in 1..Len(v) : v[k].tag = "List"}})
\* The number of "(" still open after the first i characters of t
OpenAt(t, i) == Count(SubSeq(t, 1, i), "(") - Count(SubSeq(t, 1, i), ")")
\* The deepest nesting of parentheses in t
ParenDepth(t) == Max({OpenAt(t, i) : i \in 0..Len(t)})
\* The characters of the text whose Tokens parse() has processed
Parsed == IF pc = "parse" THEN current_pos - 1 ELSE current_pos

\* C12: on a balanced text parse does not panic and returns what the text
\* denotes: the top-level Values in source order, one List per parenthesized
\* group, Lists nested as deep as the parentheses, no Open or Close at any
\* depth.  While parse runs, curr_list is the stack length minus one, which is
\* the number of groups still open, and the stack is not empty.
C12_ParseResult ==
    /\ Balanced(text) =>
          /\ pc # "panic"
          /\ list_stack # <<>>
          /\ curr_list = Len(list_stack) - 1
          /\ curr_list = OpenAt(text, Parsed)
          /\ pc = "end" => Len(list_stack) = 1
          /\ ParseReturned =>
                /\ ast = Groups(text)
                /\ NoParens(ast)
                /\ ListDepth(ast) = ParenDepth(text)
    /\ pc # "panic" => (list_stack # <<>> /\ curr_list = Len(list_stack) - 1)

\* C12's case: parse has returned two top-level Values, the second a List
\* holding a List
C12_Witness ==
    /\ pc = "fold"
    /\ text = <<"a", "(", "(", "a", ")", ")">>
    /\ ast = <<Sy("a"), List(<<List(<<Sy("a")>>)>>)>>

\* slice starts with an optional sign immediately followed by a digit
SignedDigits(slice) ==
    \/ Head(slice) \in Digits
    \/ Head(slice) \in {"+", "-"} /\ Len(slice) >= 2 /\ slice[2] \in Digits
\* ... and the length of that sign and its whole run of digits
SignedSpan(slice) ==
    IF Head(slice) \in Digits THEN Run(slice, Digits) ELSE 1 + Run(Tail(slice), Digits)
\* The number a string of at most 9 digits denotes
RECURSIVE Denotes(_)
Denotes(ds) == IF ds = <<>> THEN 0 ELSE 10 * Denotes(Front(ds)) + DigitVal(Last(ds))
\* The number a sign and at most 9 digits denote
SignedValue(str) ==
    IF Head(str) = "-" THEN -Denotes(Tail(str))
    ELSE IF Head(str) = "+" THEN Denotes(Tail(str))
    ELSE Denotes(str)
\* The length of the name that starts at the head of slice
NameSpan(slice) == 1 + Run(Tail(slice), Lower \cup Upper \cup Digits)

\* What one call of next() does on a non-empty slice, rule by rule in order
C13_Step ==
    (pc = "lex" /\ Slice # <<>>) =>
        LET slice == Slice
            c == Head(slice)
        IN  CASE c = "(" ->
                   /\ pc' = "parse" /\ cur' = <<Open>>
                   /\ current_pos' = current_pos + 1
              [] c = ")" ->
                   /\ pc' = "parse" /\ cur' = <<Close>>
                   /\ current_pos' = current_pos + 1
              [] SignedDigits(slice) ->
                   /\ current_pos' = current_pos + SignedSpan(slice)
                   /\ pc' = "parse" => cur'[1].tag = "Int"
                   /\ SignedSpan(slice) <= 9 =>
                        /\ pc' = "parse"
                        /\ cur' = <<IntT(SignedValue(SubSeq(slice, 1, SignedSpan(slice))))>>
                   /\ pc' \in {"parse", "panic"}
              [] c \in {"+", "-", "*", ">", "<", "="} \cup Lower \cup Upper ->
                   /\ pc' = "parse"
                   /\ cur' = <<Symbol(SubSeq(slice, 1, NameSpan(slice)))>>
                   /\ current_pos' = current_pos + NameSpan(slice)
              [] c = "\n" ->
                   /\ pc' = "lex" /\ cur' = cur /\ toks' = toks
                   /\ current_pos' = current_pos + 1
                   /\ line' = line + 1
              [] c \in {" ", "\t", "\r", "\f"} ->
                   /\ pc' = "lex" /\ cur' = cur /\ toks' = toks
                   /\ current_pos' = current_pos + Run(slice, {" ", "\t", "\r", "\f", "\n"})
                   /\ line' = line
              [] OTHER ->
                   /\ pc' = "panic" /\ current_pos' = current_pos /\ toks' = toks

\* C13: next() takes the first of the rules Open, Close, Int, Symbol, newline,
\* whitespace that matches the slice.  A slice that starts with an optional
\* sign and a digit yields the Int of the sign and the whole run of digits,
\* never a Symbol; a "+", "-" or "*" with no digit behind it starts a Symbol.
\* "(+ 1 2)" yields Open, Symbol(+), Int(1), Int(2), Close and "(- i -1)"
\* yields Open, Symbol(-), Symbol(i), Int(-1), Close.
C13_RuleOrder ==
    /\ [][C13_Step]_vars_all
    /\ []((text = PlusOneTwo /\ pc = "end") =>
             toks = <<Open, Sy("+"), IntT(1), IntT(2), Close>>)
    /\ []((text = MinusIMinus1 /\ pc = "end") =>
             toks = <<Open, Sy("-"), Sy("i"), IntT(-1), Close>>)
    /\ [](\A i \in 1..Len(toks) : toks[i].tag \in {"Open", "Close", "Int", "Symbol"})

\* C13's case: "(- i -1)" has been lexed, the second "-" into Int(-1)
C13_Witness ==
    /\ text = MinusIMinus1
    /\ pc = "end"
    /\ toks = <<Open, Sy("-"), Sy("i"), IntT(-1), Close>>

\* next() has returned None
LexEnded == pc \in {"end", "fold", "eval", "done"}

\* C14: the lexer terminates on every text.  A call of next() either moves
\* the cursor forward, or panics, or returns None, and it returns None exactly
\* when the cursor is at the end of the text (at once on the empty text,
\* after the last skip on a tail of whitespace); the cursor never passes the
\* end of the text nor moves back, and after None it stays and no further
\* Token is produced.
C14_LexerTerminates ==
    /\ [](current_pos <= Len(text))
    /\ [](LexEnded => current_pos = Len(text))
    /\ [][pc = "lex" =>
            /\ pc' = "end" <=> current_pos = Len(text)
            /\ pc' \in {"lex", "parse"} => current_pos' > current_pos
            /\ pc' \in {"lex", "parse", "end", "panic"}
            /\ pc' # "parse" => toks' = toks]_vars_all
    /\ [][current_pos' >= current_pos]_vars_all
    /\ [][LexEnded => (current_pos' = current_pos /\ toks' = toks)]_vars_all
    /\ <>(LexEnded \/ pc = "panic")

\* C14's case: next() has returned None at the end of a text whose tail is
\* a space, a newline and a space
C14_Witness ==
    /\ text = <<"i", " ", "\n", " ">>
    /\ pc = "end"
    /\ current_pos = 4
    /\ toks = <<Sy("i")>>

\* Texts with a top-level form whose evaluation panics: a type error, an
\* unbound symbol in call position, a list whose first item is no Symbol
FaultingTexts == {FormsThenFault, UnknownCall, IntHead, EmptyList, CompareMixed}

\* C15: run returns only after every top-level form has been evaluated
\* without a panic, and acc then holds one Value per form, the i-th the Value
\* of the i-th form.  A panic ends the run: nothing follows it, run does not
\* return, and the Values of the forms before the faulting one are lost.
C15_AllOrNothing ==
    /\ [](pc = "done" => (err = "" /\ idx = Len(ast) /\ Len(acc) = Len(ast)))
    /\ [](pc \in {"fold", "done"} => Len(acc) = idx)
    /\ [][acc' # acc =>
            /\ ctl.op = "ret" /\ stack = <<>>
            /\ ctl.path = <<Len(acc) + 1>>
            /\ acc' = Append(acc, ctl.tok)]_vars_all
    /\ [][pc # "panic"]_vars_all
    /\ [](text \in FaultingTexts => pc # "done")
    /\ []((text = AtomsOnly /\ pc = "done") =>
             acc = <<IntT(1), IntT(-2), IntT(3), Sy("x")>>)
    /\ []((text = IntHead /\ pc = "panic") => acc = <<IntT(7)>>)
    /\ []((text = FormsThenFault /\ pc = "panic") => acc = <<IntT(1), IntT(2)>>)

\* C15's case: the third form of "(print 1) (set a 2) (+ a x) (print 3)" has
\* panicked after two forms were evaluated
C15_Witness ==
    /\ text = FormsThenFault
    /\ pc = "panic"
    /\ idx = 3
    /\ acc = <<IntT(1), IntT(2)>>
    /\ ast # <<>>

\* The symbols evaluate() matches by name
Keywords ==
    {SymPlus, SymMinus, SymTimes, SymGreater, SymLess, SymEquals, SymIf, SymWhile,
     SymDo, SymSet, SymPrint}
\* node is a List whose first element is a Symbol that is no keyword
IsCall(node) ==
    /\ node.tag = "List"
    /\ node.items # <<>>
    /\ node.items[1].tag = "Symbol"
    /\ node.items[1].s \notin Keywords

\* What evaluate() does when called on a call, on a List with no Symbol in
\* front, and on a Symbol
C16_Step ==
    (pc = "eval" /\ ctl.op = "eval") =>
        LET node == ctl.tok IN
        CASE IsCall(node) ->
               IF node.items[1] \in DOMAIN vars
               THEN /\ pc' = "eval"
                    /\ ctl'.op = "ret" /\ ctl'.path = ctl.path
                    /\ ctl'.tok = vars[node.items[1]]
                    /\ UNCHANGED <<stack, vars, out, sets>>
               ELSE pc' = "panic" /\ err' = "unknown symbol"
          [] node.tag = "List" /\ ~IsCall(node)
                /\ (node.items = <<>> \/ node.items[1].tag # "Symbol") ->
               pc' = "panic"
          [] node.tag = "Symbol" ->
               /\ pc' = "eval"
               /\ ctl'.op = "ret" /\ ctl'.path = ctl.path
               /\ ctl'.tok = IF node \in DOMAIN vars THEN vars[node] ELSE node
          [] OTHER -> TRUE

\* C16: a List headed by a Symbol that is no keyword evaluates, without
\* evaluating its operands, to the value bound to that Symbol, and panics
\* with "unknown symbol" when there is none, while the same Symbol on its own
\* evaluates to itself; a List headed by an Int or a List (or empty) panics.
C16_CallPosition ==
    /\ [][C16_Step]_vars_all
    /\ [](ReturnsFrom({<<"f">>}) => (Sy("f") \in DOMAIN vars /\ ctl.tok = vars[Sy("f")]))
    /\ []((pc = "panic" /\ err = "unknown symbol") =>
             (IsCall(ctl.tok) /\ ctl.tok.items[1] \notin DOMAIN vars))

\* C16's case: in (do f (f)) the bare f has evaluated to Symbol(f) and the
\* call (f) has panicked
C16_Witness ==
    /\ pc = "panic"
    /\ err = "unknown symbol"
    /\ ctl.tok = Form(<<"f">>, <<>>)
    /\ stack # <<>>
    /\ TopFrame.hist = <<[k |-> 1, val |-> Sy("f")]>>

\* a op b leaves i32
Overflowing(op, a, b) ==
    CASE op = SymPlus -> AddOverflows(a, b)
      [] op = SymMinus -> SubOverflows(a, b)
      [] op = SymTimes -> MulOverflows(a, b)
\* The i32 congruent to a + b and to a - b modulo 2^32
SumMod(a, b) ==
    IF b > 0 /\ a > I32Max - b THEN (a + I32Min) + (b + I32Min)
    ELSE IF b < 0 /\ a < I32Min - b THEN (a - I32Min) + (b - I32Min)
    ELSE a + b
DiffMod(a, b) == IF b = I32Min THEN SumMod(SumMod(a, I32Max), 1) ELSE SumMod(a, -b)
\* The i32 congruent to a * b modulo 2^32, b small: a added or taken b times
RECURSIVE TimesMod(_, _)
TimesMod(a, b) ==
    IF b = 0 THEN 0
    ELSE IF b > 0 THEN SumMod(TimesMod(a, b - 1), a)
    ELSE DiffMod(TimesMod(a, b + 1), a)
IsSmall(n) == -32 <= n /\ n <= 32
\* (2^31-1)^2 = 1, (-2^31)^2 = 0, (2^31-1) * (-2^31) = -2^31  (mod 2^32)
ProductMod(a, b) ==
    CASE IsSmall(b) -> TimesMod(a, b)
      [] IsSmall(a) -> TimesMod(b, a)
      [] a = I32Max /\ b = I32Max -> 1
      [] a = I32Min /\ b = I32Min -> 0
      [] OTHER -> I32Min
ResultMod(op, a, b) ==
    CASE op = SymPlus -> SumMod(a, b)
      [] op = SymMinus -> DiffMod(a, b)
      [] op = SymTimes -> ProductMod(a, b)
OverflowMessage(op) ==
    CASE op = SymPlus -> "attempt to add with overflow"
      [] op = SymMinus -> "attempt to subtract with overflow"
      [] op = SymTimes -> "attempt to multiply with overflow"
InI32(n) == I32Min <= n /\ n <= I32Max

\* The second operand of +, - or * has returned and both operands are Ints:
\* the operator is applied
C17_Step ==
    (/\ Returning({SymPlus, SymMinus, SymTimes})
     /\ TopFrame.k = 2
     /\ TopFrame.vals[1].tag = "Int"
     /\ ctl.tok.tag = "Int") =>
        LET op == At(TopFrame.node, 0).s
            a == TopFrame.vals[1].n
            b == ctl.tok.n
        IN  IF checked /\ Overflowing(op, a, b)
            THEN pc' = "panic" /\ err' = OverflowMessage(op)
            ELSE /\ pc' = "eval"
                 /\ ctl'.op = "ret"
                 /\ ctl'.tok = IntT(ResultMod(op, a, b))

\* C17: within one build +, - and * treat a result outside i32 alike: with
\* overflow checks each of them panics on every overflow, without them each
\* of them returns the Int congruent to the result modulo 2^32; no Int ever
\* lies outside i32.
C17_OverflowPolicy ==
    /\ [][C17_Step]_vars_all
    /\ [](ReturnsFrom({SymPlus, SymMinus, SymTimes}) =>
            /\ ctl.tok.tag = "Int"
            /\ Overflowing(Head0, Lhs.n, Rhs.n) => ~checked)
    /\ []((pc = "panic" /\ err \in {OverflowMessage(op) : op \in {SymPlus, SymMinus, SymTimes}})
            => checked)
    /\ [](ctl.tok.tag = "Int" => InI32(ctl.tok.n))
    /\ [](\A i \in 1..Len(acc) : acc[i].tag = "Int" => InI32(acc[i].n))

\* C17's case: without overflow checks (* 2147483647 2) has returned Int(-2)
C17_Witness ==
    /\ ~checked
    /\ ReturnsFrom({SymTimes})
    /\ Lhs = IntT(I32Max)
    /\ Rhs = IntT(2)
    /\ ctl.tok = IntT(-2)

\* ... and with them (- -2147483648 1) has panicked
C17_PanicReached ==
    /\ checked
    /\ pc = "panic"
    /\ err = "attempt to subtract with overflow"
    /\ TopFrame.vals = <<IntT(I32Min)>>
    /\ ctl.tok = IntT(1)

\* m and n are the same map but for the binding of key
SameButFor(m, n, key) ==
    /\ DOMAIN n \ {key} = DOMAIN m \ {key}
    /\ \A k \in DOMAIN m \ {key} : n[k] = m[k]

\* C18: a step of evaluate() changes the map only when a (set s e) returns,
\* and then the map is as before but for the key s, which is bound to the
\* value of e; so a tree with no set form leaves the map as it was.  The
\* tree is never changed, and each frame holds the node of the tree it is at.
C18_OnlySetWrites ==
    /\ [][vars' # vars => Returning({SymSet})]_vars_all
    /\ [][Returning({SymSet}) =>
            /\ SameButFor(vars, vars', At(TopFrame.node, 1))
            /\ At(TopFrame.node, 1) \in DOMAIN vars'
            /\ vars'[At(TopFrame.node, 1)] = ctl.tok
            /\ Len(sets') = Len(sets) + 1]_vars_all
    /\ [][ast' = ast]_vars_all
    /\ [](\A i \in 1..Len(ast) : (FormsIn(ast[i], SymSet) = 0 /\ idx <= i) => vars = NewMap)
    /\ [](Len(sets) = 0 => vars = NewMap)
    /\ [](\A i \in 1..Len(stack) : stack[i].node = NodeAt(stack[i].path))

\* C18's case: a set of b has returned where a was bound, and a is bound
\* as before
C18_Witness ==
    /\ pc = "eval"
    /\ Len(sets) = 2
    /\ sets[1].key = Sy("a") /\ sets[1].val = IntT(1)
    /\ sets[2].key = Sy("b") /\ sets[2].val = Sy("b")
    /\ vars = [k \in {Sy("a"), Sy("b")} |-> IF k = Sy("a") THEN IntT(1) ELSE Sy("b")]

\* The number of newline characters among the first n characters of the text
NewlinesIn(n) == Cardinality({i \in 1..n : text[i] = "\n"})

\* C19: the line counter is the number of newline characters among the
\* characters consumed so far, so a lexical error reports the number of
\* newlines before the character no rule matches.
C19_LineCountsNewlines ==
    line = NewlinesIn(current_pos)

\* What holds instead: line counts the newlines at which a call of next()
\* began, and misses those the whitespace rule consumed behind a space, a
\* tab or a carriage return
C19_LineAtMost ==
    /\ line <= NewlinesIn(current_pos)
    /\ (\A i \in 2..current_pos : text[i] = "\n" => text[i - 1] \notin Whitespace \ {"\n"})
          => line = NewlinesIn(current_pos)
    /\ (text = CrLf /\ pc = "panic") => (line = 0 /\ NewlinesIn(current_pos) = 2)

\* Texts that begin with complete top-level forms and then have a lexical
\* error or an unmatched parenthesis
BrokenTexts ==
    {FormsThenOpen, FormsThenBadChar, BadCharLine2, HugeLiteral, UnmatchedOpen,
     UnmatchedClose, CloseOpen}
Evaluating == pc \in {"fold", "eval", "done"}

\* C20: run lexes and parses the whole text before it evaluates anything.
\* Until parse has returned, no form has been evaluated, nothing is printed
\* and nothing is set; once evaluation has begun the cursor is at the end of
\* the text and ast is what parse returned.  A text with a lexical error or
\* an unmatched parenthesis, wherever it is, panics with no print and no set
\* done, and evaluation never starts.
C20_PhasesOrdered ==
    /\ [](pc \in {"lex", "parse", "end"} =>
            (idx = 0 /\ acc = <<>> /\ out = <<>> /\ sets = <<>> /\ vars = NewMap /\ ctl = NoCtl))
    /\ []((Evaluating \/ idx >= 1) =>
            (current_pos = Len(text) /\ cur = <<>> /\ Len(list_stack) = 1 /\ ast = list_stack[1]))
    /\ []((pc = "panic" /\ idx = 0) => (out = <<>> /\ sets = <<>> /\ acc = <<>> /\ ast = <<>>))
    /\ [](text \in BrokenTexts => (~Evaluating /\ idx = 0 /\ out = <<>> /\ sets = <<>>))
    /\ [][(out' # out \/ sets' # sets \/ vars' # vars \/ acc' # acc) =>
            (pc \in {"fold", "eval"} /\ current_pos = Len(text))]_vars_all
    /\ [][Evaluating => (UNCHANGED <<lexVars, parseVars, ast>>)]_vars_all

\* C20's case: the lexer has panicked on the "?" of "(print 1) (set a 2) ?"
\* after parse had completed both forms, and nothing was printed or set
C20_Witness ==
    /\ text = FormsThenBadChar
    /\ pc = "panic"
    /\ err = "unrecognized symbol"
    /\ Len(list_stack) = 1
    /\ Len(list_stack[1]) = 2
    /\ out = <<>>
    /\ sets = <<>>

=============================================================================
